---- MODULE Spec2Model ----
(***************************************************************************)
(* BirdCast migration scraper: the Record Store (save_to_parquet) and the  *)
(* Scrape Orchestrator / Region Fetcher (scrape_data, scrape_single_url)   *)
(* of scripts/scraper_utils.py.                                            *)
(*                                                                         *)
(* A scraped record is a Python dict: a function from the keys it holds to *)
(* their values.  A DataFrame is a column set and a sequence of rows, each *)
(* row a function from the column set to a value or Null (NaN / None).     *)
(* All cell values are integers: a region code, a migration_date label and *)
(* a scrape instant are numbered.                                          *)
(***************************************************************************)
EXTENDS Integers, Sequences, FiniteSets, TLC

\* ------------------------------------------------------------------ bounds
MaxTs == 3
NumRegions == 1
NumLabels == 1
MaxBatch == 2
MaxRowsIn == 4
MaxUrls == 2
MaxDay == 1
MaxNumLen == 5
MaxCount == 1
MaxColLen == 2
MaxCsvCalls == 2
MaxJsonCalls == 2
TicksPerDay == 4
MaxClock == 8

\* ------------------------------------------------------------- value space
\* NaN / None: the value pandas gives a cell whose column the row lacks.
Null == -1

Timestamps == 1..MaxTs
Regions == 1..NumRegions
Labels == 1..NumLabels

\* The dashboard URLs: URL r ends in /region/<code r>; URL 0 has no such
\* ending (a trailing slash, another path).
Urls == 0..NumRegions

\* re.search(r'/region/([^/]+)$', url): the region code of a URL, if any.
RegionOf(url) == IF url \in Regions THEN url ELSE Null

\* pd.to_datetime(...).dt.date: the calendar date of an instant; two
\* consecutive instants share a calendar day.
DateOf(ts) == (ts + 1) \div 2

Fields == {"scrape_timestamp", "url", "region_code", "migration_date"}

\* Mutant of MkRecord: the url is recorded only with a region code.
MkRecordUrlWithRegion(ts, url, md) ==
    [f \in {"scrape_timestamp"}
           \cup (IF RegionOf(url) = Null THEN {} ELSE {"url", "region_code"})
           \cup (IF md = Null THEN {} ELSE {"migration_date"}) |->
        CASE f = "scrape_timestamp" -> ts
          [] f = "url" -> url
          [] f = "region_code" -> RegionOf(url)
          [] OTHER -> md]

\* The dict scrape_single_url builds: scrape_timestamp and url always,
\* region_code when the URL has one, migration_date when the page text has
\* the label (md = Null: no match, the key is absent).
MkRecord(ts, url, md) ==
    [f \in {"scrape_timestamp", "url"}
           \cup (IF RegionOf(url) = Null THEN {} ELSE {"region_code"})
           \cup (IF md = Null THEN {} ELSE {"migration_date"}) |->
        CASE f = "scrape_timestamp" -> ts
          [] f = "url" -> url
          [] f = "region_code" -> RegionOf(url)
          [] OTHER -> md]

Records ==
    {MkRecord(ts, url, md) : ts \in Timestamps,
                             url \in Urls,
                             md \in Labels \cup {Null}}

\* The data_list values a caller can hand to save_to_parquet.
Batches == UNION {[1..n -> Records] : n \in 0..MaxBatch}

\* ---------------------------------------------------------------- pandas
EmptyDF == [cols |-> {}, rows |-> <<>>]

\* Mutant of Reindex: missing cells filled with 0 (a fillna(0)).
ReindexZero(row, cols) ==
    [f \in cols |-> IF f \in DOMAIN row THEN row[f] ELSE 0]

\* A row seen under a wider column set: missing columns become Null.
Reindex(row, cols) ==
    [f \in cols |-> IF f \in DOMAIN row THEN row[f] ELSE Null]

\* pd.DataFrame(data_list): the columns are the union of the dicts' keys.
DataFrame(data_list) ==
    LET cols == UNION {DOMAIN data_list[i] : i \in DOMAIN data_list}
    IN [cols |-> cols,
        rows |-> [i \in DOMAIN data_list |-> Reindex(data_list[i], cols)]]

\* pd.concat([existing_df, new_df], ignore_index=True): column union.
Concat(a, b) ==
    LET cols == a.cols \cup b.cols
    IN [cols |-> cols,
        rows |-> [i \in 1..Len(a.rows) |-> Reindex(a.rows[i], cols)]
                 \o [i \in 1..Len(b.rows) |-> Reindex(b.rows[i], cols)]]

\* Mutant of DateKey: always the calendar date, migration_date ignored.
DateKeyCalendar(df, row) == DateOf(row["scrape_timestamp"])

\* combined_df['date_key']: the migration_date column when the table has
\* one, else the calendar date of scrape_timestamp. The choice is made once
\* for the table, from its column set.
DateKey(df, row) ==
    IF "migration_date" \in df.cols
       THEN row["migration_date"]
       ELSE DateOf(row["scrape_timestamp"])

\* sort_values('scrape_timestamp_dt', ascending=False). Rows of equal instant
\* keep their order; two rows of Records with one dedup key and one instant
\* are equal, so the order among ties decides nothing here.
RECURSIVE SortFrom(_, _)
SortFrom(rows, t) ==
    IF t < 1 THEN <<>>
    ELSE SelectSeq(rows, LAMBDA r : r["scrape_timestamp"] = t)
         \o SortFrom(rows, t - 1)

SortDesc(rows) == SortFrom(rows, MaxTs)

\* The subset ['region_code', 'date_key'] of drop_duplicates: pandas counts
\* two missing values as equal, so Null matches Null in either column.
SameKey(df, r, s) ==
    /\ r["region_code"] = s["region_code"]
    /\ DateKey(df, r) = DateKey(df, s)

\* drop_duplicates(subset=[...], keep='first').
RECURSIVE DropDuplicates(_, _, _)
DropDuplicates(df, rows, kept) ==
    IF rows = <<>> THEN kept
    ELSE LET r == Head(rows)
             dup == \E i \in DOMAIN kept : SameKey(df, kept[i], r)
         IN DropDuplicates(df, Tail(rows),
                           IF dup THEN kept ELSE Append(kept, r))

\* Mutant of Dedup: the deduplication is never run.
DedupNever(df) == df

\* Lines 271-290: the deduplication, run only on a table that has both the
\* scrape_timestamp and the region_code column.
Dedup(df) ==
    IF Len(df.rows) > 0 /\ "scrape_timestamp" \in df.cols
                        /\ "region_code" \in df.cols
       THEN [cols |-> df.cols,
             rows |-> DropDuplicates(df, SortDesc(df.rows), <<>>)]
       ELSE df

\* --------------------------------------------------------------- fetcher
\* html_content[:100]: the length of the slice searched for 'css'.
SliceLen == 100

\* What the server may declare as content-type ('' when the header is
\* missing), and the same lower-cased.
ContentTypes == {"Text/HTML; charset=UTF-8", "text/css", ""}

Lower(content_type) ==
    IF content_type = "Text/HTML; charset=UTF-8"
       THEN "text/html; charset=utf-8"
       ELSE content_type

\* 'text/html' in content_type
ContainsTextHtml(content_type) == content_type \in {"text/html; charset=utf-8"}

\* A body, by what the fetcher and the extractor look at: what the document
\* is, whether its text, stripped, starts with '@keyframes', the offset of
\* the first 'css' in its lower-cased text (Null: none) and the
\* migration_date label in its text (Null: none).
Bodies ==
    {b \in [page : {"html", "stylesheet"}, keyframes : BOOLEAN,
            cssAt : {Null, 10, 98}, md : Labels \cup {Null}] :
        /\ b.page = "html" => ~b.keyframes
        /\ b.page = "stylesheet" => b.md = Null}

\* session.get either raises (no connection, timeout) or gives a response;
\* raises: BeautifulSoup or an extraction step raises on this body.
NetworkError ==
    [transport |-> "error", status |-> 0, content_type |-> "",
     body |-> [page |-> "html", keyframes |-> FALSE, cssAt |-> Null, md |-> Null],
     raises |-> FALSE]

Responses ==
    {NetworkError}
    \cup [transport : {"ok"}, status : {200, 404, 503},
          content_type : ContentTypes, body : Bodies, raises : BOOLEAN]

\* raise_for_status() raises for a 4xx or 5xx status.
RaisesForStatus(status) == status >= 400 /\ status < 600

\* html_content.strip().startswith('@keyframes')
\*     or 'css' in html_content[:100].lower()
CssLike(body) ==
    \/ body.keyframes
    \/ body.cssAt # Null /\ body.cssAt + 3 <= SliceLen

\* Mutant of ScrapeSingleUrl: the content-type check is missing.
ScrapeSingleUrlNoTypeCheck(url, resp, ts) ==
    IF resp.transport = "error" THEN <<>>
    ELSE IF RaisesForStatus(resp.status) THEN <<>>
    ELSE IF CssLike(resp.body) THEN <<>>
    ELSE IF resp.raises THEN <<>>
    ELSE <<MkRecord(ts, url, resp.body.md)>>

\* scrape_single_url: <<>> for None, <<data>> for the dict.
ScrapeSingleUrl(url, resp, ts) ==
    IF resp.transport = "error" THEN <<>>
    ELSE IF RaisesForStatus(resp.status) THEN <<>>
    ELSE IF ~ContainsTextHtml(Lower(resp.content_type)) THEN <<>>
    ELSE IF CssLike(resp.body) THEN <<>>
    ELSE IF resp.raises THEN <<>>
    ELSE <<MkRecord(ts, url, resp.body.md)>>

\* The failure kinds of a fetch, as the fetcher's contract names them, or
\* "ok": what a response is, whatever scrape_single_url makes of it.
OutcomeOf(resp) ==
    CASE resp.transport = "error" -> "NetworkError"
      [] resp.transport = "ok" /\ resp.status >= 400 -> "HttpError"
      [] resp.transport = "ok" /\ resp.status < 400
            /\ ~ContainsTextHtml(Lower(resp.content_type)) -> "UnexpectedContentType"
      [] resp.transport = "ok" /\ resp.status < 400
            /\ ContainsTextHtml(Lower(resp.content_type))
            /\ CssLike(resp.body) -> "MalformedResponse"
      [] resp.transport = "ok" /\ resp.status < 400
            /\ ContainsTextHtml(Lower(resp.content_type))
            /\ ~CssLike(resp.body) /\ resp.raises -> "ExtractionError"
      [] OTHER -> "ok"

\* The data_list values of two processes that persist at the same time: the
\* records of a run of each.
RaceBatches ==
    UNION {[1..n -> {rec \in Records : rec["scrape_timestamp"] >= MaxTs - 1}]
              : n \in 1..MaxBatch}

\* The urls lists a scraper can be built with.
UrlLists == UNION {[1..n -> Urls] : n \in 0..MaxUrls}

\* ---------------------------------------------------- parse_datetime_string
\* A raw string by what the parser sees in it: whether it has whitespace
\* that ' '.join(s.split()) changes (leading, trailing, doubled), and its
\* words: none at all, words that are no date, or a date and time of day on
\* the 12-hour clock with a timezone word ("" when there is none). summer:
\* the date falls into daylight saving time.
TzAbbreviations == {"EDT", "EST", "CDT", "CST", "MDT", "MST", "PDT", "PST"}

TzWords == TzAbbreviations \cup {"", "UTC"}

NoDate == [day |-> 0, h12 |-> 12, pm |-> FALSE, summer |-> FALSE, tz |-> ""]

DatetimeStrings ==
    [text : {"empty", "words"}, ws : BOOLEAN, dt : {NoDate}]
    \cup [text : {"datetime"}, ws : BOOLEAN,
          dt : [day : 0..MaxDay, h12 : 1..12, pm : BOOLEAN,
                summer : BOOLEAN, tz : TzWords]]

\* The timezone of the machine the scraper runs on.
HostZones == {"UTC", "US/Eastern", "US/Central", "US/Mountain", "US/Pacific"}

\* time.tzname of the machine.
TimeTzname(host) ==
    CASE host = "US/Eastern" -> {"EST", "EDT"}
      [] host = "US/Central" -> {"CST", "CDT"}
      [] host = "US/Mountain" -> {"MST", "MDT"}
      [] host = "US/Pacific" -> {"PST", "PDT"}
      [] OTHER -> {"UTC"}

\* tz.tzlocal(): the machine's UTC offset in hours at a local time, from the
\* date of that time.
TzLocalOffset(host, summer) ==
    CASE host = "US/Eastern" -> IF summer THEN -4 ELSE -5
      [] host = "US/Central" -> IF summer THEN -5 ELSE -6
      [] host = "US/Mountain" -> IF summer THEN -6 ELSE -7
      [] host = "US/Pacific" -> IF summer THEN -7 ELSE -8
      [] OTHER -> 0

\* ' '.join(datetime_str.split())
NormalizeWhitespace(str) == [str EXCEPT !.ws = FALSE]

\* The 12-hour clock: 12 AM is hour 0, 12 PM is hour 12.
Hour24(h12, pm) == (h12 % 12) + (IF pm THEN 12 ELSE 0)

\* date_parser.parse(s) without tzinfos: the naive local time in hours, and
\* the UTC offset of the tzinfo it attaches: that of the machine for a word
\* in time.tzname, 0 for UTC, none (Null) for no word and for every other
\* word, which dateutil reads and then drops with an UnknownTimezoneWarning.
DateParserParse(str, host) ==
    [naive |-> 24 * str.dt.day + Hour24(str.dt.h12, str.dt.pm),
     aware |-> str.dt.tz \in TimeTzname(host) \/ str.dt.tz = "UTC",
     offset |-> IF str.dt.tz \in TimeTzname(host)
                   THEN TzLocalOffset(host, str.dt.summer)
                   ELSE 0]

\* utc_dt.isoformat(): the date and the hour of a UTC time, "+00:00".
IsoFormat(utc) ==
    [text |-> "iso", ws |-> FALSE,
     dt |-> [day |-> utc \div 24, h24 |-> utc % 24, tz |-> "+00:00"]]

\* parse_datetime_string: a falsy argument is returned as it is; the name
\* datetime_str is rebound to the normalized string before the parse, so
\* that is what the except branch returns.
ParseDatetimeString(datetime_str, host) ==
    IF datetime_str.text = "empty" /\ ~datetime_str.ws THEN datetime_str
    ELSE LET str == NormalizeWhitespace(datetime_str)
         IN IF str.text # "datetime" THEN str
            ELSE LET parsed_dt == DateParserParse(str, host)
                 IN IF parsed_dt.aware
                       THEN IsoFormat(parsed_dt.naive - parsed_dt.offset)
                       ELSE IsoFormat(parsed_dt.naive)

\* ------------------------------------------------------ the page extractor
\* A number as the page writes it: characters that are digits or commas.
Digits == {"0", "1"}

NumChars == Digits \cup {","}

NumStrings == UNION {[1..n -> NumChars] : n \in 1..MaxNumLen}

AllDigits(str) == \A i \in DOMAIN str : str[i] \in Digits

\* (?:,?\d{3})* up to the end of str.
RECURSIVE GroupTail(_)
GroupTail(str) ==
    \/ str = <<>>
    \/ /\ Len(str) >= 3
       /\ AllDigits(SubSeq(str, 1, 3))
       /\ GroupTail(SubSeq(str, 4, Len(str)))
    \/ /\ Len(str) >= 4
       /\ str[1] = ","
       /\ AllDigits(SubSeq(str, 2, 4))
       /\ GroupTail(SubSeq(str, 5, Len(str)))

\* \d{1,3}(?:,?\d{3})* matching all of str.
MatchesNumber(str) ==
    \E k \in 1..3 : /\ k <= Len(str)
                    /\ AllDigits(SubSeq(str, 1, k))
                    /\ GroupTail(SubSeq(str, k + 1, Len(str)))

\* re.search of (\d{1,3}(?:,?\d{3})*)\s+<words>: run is the digits and commas
\* right before the whitespace; the match is the leftmost one that ends
\* there. <<>>: no match.
SearchNumber(run) ==
    LET starts == {q \in 1..Len(run) : MatchesNumber(SubSeq(run, q, Len(run)))}
    IN IF starts = {} THEN <<>>
       ELSE SubSeq(run, CHOOSE q \in starts : \A o \in starts : q <= o, Len(run))

\* .replace(',', '')
RemoveCommas(str) == SelectSeq(str, LAMBDA c : c \in Digits)

\* int(str) for a string of digits.
RECURSIVE IntOf(_)
IntOf(str) ==
    IF str = <<>> THEN 0
    ELSE 10 * IntOf(SubSeq(str, 1, Len(str) - 1))
         + (IF str[Len(str)] = "1" THEN 1 ELSE 0)

\* The "<N> Birds crossed <place> last night" phrase of a page text: the
\* number, the letter case, and whether a line break of the text lies
\* between "crossed" and "last night". num = <<>>: the page has no such phrase.
NoCrossed == [num |-> <<>>, letters |-> "Birds crossed", gap |-> "same line"]

CrossedPhrases ==
    [num : NumStrings, letters : {"Birds crossed", "BIRDS CROSSED"},
     gap : {"same line", "line break"}]

\* The peak phrase, in the two forms the site has used.
NoPeak == [num |-> <<>>, dialect |-> "Peak of N birds in flight"]

PeakPhrases ==
    [num : {<<"1">>, <<"1", ",", "0", "0", "0">>},
     dialect : {"Peak of N birds in flight", "N Birds in flight"}]

\* The two timestamp strings of a page, in page order.
StartString ==
    [text |-> "datetime", ws |-> FALSE,
     dt |-> [day |-> 0, h12 |-> 8, pm |-> TRUE, summer |-> TRUE, tz |-> "EDT"]]

EndString ==
    [text |-> "datetime", ws |-> FALSE,
     dt |-> [day |-> 1, h12 |-> 6, pm |-> FALSE, summer |-> TRUE, tz |-> "EDT"]]

\* A page text, by the phrases the extractors search for. direction, speed
\* and altitude: "" or the phrase as one of the two extractors expects it;
\* times: how many timestamp strings; labelled: they follow "Starting:" and
\* "Ending:"; length: the number of characters of the text.
BlankPage ==
    [region_name |-> FALSE, crossed |-> NoCrossed, peak |-> NoPeak,
     direction |-> "", speed |-> "", altitude |-> "",
     times |-> 0, labelled |-> FALSE, md |-> Null, length |-> 800]

Pages ==
    {[BlankPage EXCEPT !.crossed = c] : c \in CrossedPhrases}
    \cup {[BlankPage EXCEPT !.length = n] : n \in {0, 300}}
    \cup {pg \in [region_name : BOOLEAN,
                  crossed : {NoCrossed,
                             [num |-> <<"1", ",", "0", "0", "0">>,
                              letters |-> "Birds crossed", gap |-> "same line"]},
                  peak : {NoPeak} \cup PeakPhrases,
                  direction : {"", "flying SSW", "Direction: SSW"},
                  speed : {"", "at 25 mph", "Speed: 25 mph"},
                  altitude : {"", "at 1,500 feet", "Altitude: 1,500 ft"},
                  times : 0..2, labelled : BOOLEAN,
                  md : Labels \cup {Null}, length : {800}] :
              pg.labelled => pg.times > 0}

\* Mutant of Opt: the key is always set, to None without a match.
OptDefault(match, key, value) == key :> (IF match THEN value ELSE Null)

\* if <match>: data[key] = value
Opt(match, key, value) == IF match THEN key :> value ELSE [k \in {} |-> Null]

\* re.IGNORECASE on the words of the crossed phrase.
LowerLetters(letters) ==
    IF letters = "BIRDS CROSSED" THEN "birds crossed"
    ELSE IF letters = "Birds crossed" THEN "birds crossed"
    ELSE letters

\* Line 142: (\d{1,3}(?:,?\d{3})*)\s+Birds crossed.*last night with
\* re.IGNORECASE; '.' does not match a line break.
BirdsCrossedMatch(c) ==
    IF c.num # <<>> /\ LowerLetters(c.letters) = "birds crossed"
                    /\ c.gap = "same line"
       THEN SearchNumber(c.num)
       ELSE <<>>

\* Line 151: Peak of (\d{1,3}(?:,?\d{3})*) birds in flight.
PeakBirdsMatch(pk) ==
    IF pk.num # <<>> /\ pk.dialect = "Peak of N birds in flight"
                     /\ MatchesNumber(pk.num)
       THEN pk.num
       ELSE <<>>

\* Lines 135-197 of scrape_single_url: the optional fields of a page text.
ExtractFields(pg, host) ==
    Opt(pg.region_name, "region_name", "Duval County, FL")
    @@ Opt(BirdsCrossedMatch(pg.crossed) # <<>>, "total_birds",
           IntOf(RemoveCommas(BirdsCrossedMatch(pg.crossed))))
    @@ Opt(PeakBirdsMatch(pg.peak) # <<>>, "peak_birds_in_flight",
           IntOf(RemoveCommas(PeakBirdsMatch(pg.peak))))
    @@ Opt(pg.direction = "flying SSW", "flight_direction", "SSW")
    @@ Opt(pg.speed = "at 25 mph", "flight_speed_mph", 25)
    @@ Opt(pg.altitude = "at 1,500 feet", "flight_altitude_ft", 1500)
    @@ Opt(pg.times >= 2, "migration_start_raw", StartString)
    @@ Opt(pg.times >= 2, "migration_end_raw", EndString)
    @@ Opt(pg.times >= 2, "migration_start_utc",
           ParseDatetimeString(StartString, host))
    @@ Opt(pg.times >= 2, "migration_end_utc",
           ParseDatetimeString(EndString, host))

\* Lines 125-200: the dict scrape_single_url returns for a page.
ExtractRecord(url, pg, ts, host) ==
    MkRecord(ts, url, pg.md) @@ ExtractFields(pg, host)

\* text_content[:500]: the length of the diagnostic sample.
DebugSampleLen == 500

\* Lines 103-165 of BirdCastScraper.scrape_single_url (src/birdcast_scraper.py),
\* the earlier extractor: the optional fields of a page text.
LegacyExtractFields(pg, host) ==
    Opt(pg.region_name, "region_name", "Duval County, FL")
    @@ Opt(BirdsCrossedMatch(pg.crossed) # <<>>, "total_birds",
           IntOf(RemoveCommas(BirdsCrossedMatch(pg.crossed))))
    @@ Opt(pg.peak.num # <<>> /\ SearchNumber(pg.peak.num) # <<>>,
           "peak_birds_in_flight",
           IntOf(RemoveCommas(SearchNumber(pg.peak.num))))
    @@ Opt(pg.direction = "Direction: SSW", "flight_direction", "SSW")
    @@ Opt(pg.speed = "Speed: 25 mph", "flight_speed_mph", 25)
    @@ Opt(pg.altitude = "Altitude: 1,500 ft", "flight_altitude_ft", 1500)
    @@ Opt(pg.labelled /\ pg.times >= 1, "migration_start_raw", StartString)
    @@ Opt(pg.labelled /\ pg.times >= 1, "migration_start_utc",
           ParseDatetimeString(StartString, host))
    @@ Opt(pg.labelled /\ pg.times >= 2, "migration_end_raw", EndString)
    @@ Opt(pg.labelled /\ pg.times >= 2, "migration_end_utc",
           ParseDatetimeString(EndString, host))

\* Lines 92-175 of BirdCastScraper.scrape_single_url: the dict, with the
\* diagnostic sample when len(data) is not above 2.
LegacyExtractRecord(url, pg, ts, host) ==
    LET data == MkRecord(ts, url, pg.md) @@ LegacyExtractFields(pg, host)
    IN IF Cardinality(DOMAIN data) > 2 THEN data
       ELSE data @@ ("debug_content_sample" :>
                        IF pg.length > 0
                           THEN [text |-> "text_content",
                                 chars |-> IF pg.length < DebugSampleLen
                                              THEN pg.length ELSE DebugSampleLen]
                           ELSE [text |-> "No text content", chars |-> 15])

\* ------------------------------------------------- numeric column coercion
\* Lines 255-257: the columns save_to_parquet coerces.
NumericColumns ==
    {"total_birds", "peak_birds_in_flight", "flight_speed_mph",
     "flight_altitude_ft"}

\* A value a record can hold in a field: a Python int, a float, a string or
\* None. n and half give the number n or n + 0.5 of an int, of a float and of
\* a string that reads as a number; numeric: the string reads as a number.
Missing == [kind |-> "none", n |-> 0, half |-> FALSE, numeric |-> FALSE]

CellValues ==
    {cell \in [kind : {"int", "float", "str", "none"}, n : 0..MaxCount,
               half : BOOLEAN, numeric : BOOLEAN] :
        /\ cell.kind = "int" => (~cell.half /\ cell.numeric)
        /\ cell.kind = "float" => cell.numeric
        /\ cell.kind = "none" => cell = Missing
        /\ (cell.kind = "str" /\ ~cell.numeric) => (cell.n = 0 /\ ~cell.half)}

Columns == UNION {[1..n -> CellValues] : n \in 1..MaxColLen}

\* pd.to_numeric(column, errors='coerce'): the number, or NaN for None and
\* for a string that is no number.
ToNumeric(cell) ==
    IF cell.kind = "none" \/ ~cell.numeric
       THEN [nan |-> TRUE, n |-> 0, half |-> FALSE]
       ELSE [nan |-> FALSE, n |-> cell.n, half |-> cell.half]

\* .astype('Int64') raises TypeError (cannot safely cast non-equivalent
\* float64 to int64) when a number of the column is not integral.
AsTypeRaises(column) ==
    \E i \in DOMAIN column : ~ToNumeric(column[i]).nan /\ ToNumeric(column[i]).half

\* .astype('Int64') otherwise: the integers, <NA> for NaN.
AsTypeInt64(column) ==
    [i \in DOMAIN column |->
        IF ToNumeric(column[i]).nan THEN Null ELSE ToNumeric(column[i]).n]

\* ------------------------------------------------------------------ state
VARIABLES
    file,       \* the dataset location: [state, df]
    pc,         \* where the save_to_parquet call stands
    batch,      \* its data_list
    existing,   \* what it loaded ([state, df])
    combined,   \* combined_df
    committed,  \* history: the last dataset a persist wrote completely
    lastBatch,  \* history: data_list of the last completed persist
    lastPre,    \* history: what the last completed persist had loaded
    prevBatch,  \* history: data_list of the completed persist right before
    rowsIn,     \* rows handed to save_to_parquet so far
    urls,       \* scrape_data: the urls of the run
    idx,        \* scrape_data: the position of the for loop
    all_data,   \* scrape_data: the batch so far
    spc,        \* scrape_data: where the call stands
    log,        \* history: per fetch of the run, its url, instant and outcome
    lastResp,   \* history: the response of the fetch just made
    lastData,   \* history: what scrape_single_url returned for it
    slept,      \* history: the time.sleep calls of the run
    rpc,        \* run_scraper: where the call stands
    csv,        \* the CSV file: [state, lines]
    stdout,     \* what run_scraper printed
    errorLog,   \* the error-level entries run_scraper logged
    hostZone,   \* the timezone of the machine
    dtInput,    \* parse_datetime_string: its argument
    dtOutput,   \* parse_datetime_string: what it returned
    ppc,        \* parse_datetime_string: "idle", "called", "returned"
    page,       \* the text of the page a fetch got
    xurl,       \* the url of that fetch
    record,     \* the dict an extractor made of it
    xpc,        \* "idle", "page", "extracted", "legacy_extracted"
    colName,    \* a column of new_df
    column,     \* its values as the records hold them
    coerced,    \* its values after lines 255-257
    cpc,        \* save_to_parquet at lines 255-257: "idle", "called",
                \* "returned", "raised"
    csvBefore,  \* the CSV file before the latest save_to_csv call
    csvBatch,   \* the data_list of that call
    csvFirst,   \* the first non-empty data_list a save_to_csv call got
    csvCalls,   \* the number of save_to_csv calls made
    json,       \* the legacy JSON file: [state, entries]
    jsonBefore, \* the JSON file before the latest save_to_json call
    jsonBatch,  \* the data_list of that call
    jsonCalls,  \* the number of save_to_json calls made
    entry,      \* the script a process was started with
    argv1,      \* sys.argv[1], "" when there is none
    mpc,        \* the __main__ block: "idle", "start", "run_scraper",
                \* "run_pending", "sleep", "end"
    runsDone,   \* the number of scrape runs the process has made
    printed,    \* what the __main__ block and its runs printed first
    clock,      \* the time of day, in ticks since the first midnight
    nextRun,    \* the tick the scheduled job is due at
    wpc,        \* two processes in save_to_parquet on one location, each
                \* "idle", "loaded", "writing" or "done"
    wbatch,     \* the data_list of each
    wcombined,  \* the combined_df of each
    overlapped, \* one of them loaded while the other was between its load
                \* and the end of its write
    torn        \* both had the file open for writing at the same time

persistVars == <<file, pc, batch, existing, combined, committed,
                 lastBatch, lastPre, prevBatch, rowsIn>>

scrapeVars == <<urls, idx, all_data, spc, log, lastResp, lastData, slept>>

runVars == <<rpc, csv, stdout, errorLog>>

\* What the persist and the scrape steps leave alone.
parseVars == <<hostZone, dtInput, dtOutput, ppc>>

extractVars == <<page, xurl, record, xpc>>

coerceVars == <<colName, column, coerced, cpc>>

csvVars == <<csvBefore, csvBatch, csvFirst, csvCalls>>

jsonVars == <<json, jsonBefore, jsonBatch, jsonCalls>>

mainVars == <<entry, argv1, mpc, runsDone, printed, clock, nextRun>>

raceVars == <<wpc, wbatch, wcombined, overlapped, torn>>

outVars == <<csvVars, jsonVars, mainVars, raceVars>>

restVars == <<runVars, parseVars, extractVars, coerceVars, outVars>>

vars == <<persistVars, scrapeVars, restVars>>

Absent == [state |-> "absent", df |-> EmptyDF]
Partial == [state |-> "partial", df |-> EmptyDF]
Stored(df) == [state |-> "ok", df |-> df]

\* Mutant of Combine: an unreadable file makes the persist drop its batch.
CombineDropOnError(f, new_df) ==
    IF f.state = "ok" THEN Concat(f.df, new_df)
    ELSE IF f.state = "absent" THEN new_df
    ELSE EmptyDF

\* Lines 259-269: combined_df. The file is there and readable: the
\* concatenation; not there, or read_parquet raises: the new frame alone.
Combine(f, new_df) ==
    IF f.state = "ok" THEN Concat(f.df, new_df) ELSE new_df

\* The CSV file is not there.
NoCsv == [state |-> "absent", lines |-> <<>>]

\* No save_to_parquet call has been made, the dataset is not there.
IdlePersist ==
    /\ file = Absent
    /\ pc = "idle"
    /\ batch = <<>>
    /\ existing = Absent
    /\ combined = EmptyDF
    /\ committed = Absent
    /\ lastBatch = <<>>
    /\ lastPre = Absent
    /\ prevBatch = <<>>
    /\ rowsIn = 0

\* No scrape_data call has been made.
IdleScrape ==
    /\ urls = <<>>
    /\ idx = 0
    /\ all_data = <<>>
    /\ spc = "idle"
    /\ log = <<>>
    /\ lastResp = NetworkError
    /\ lastData = <<>>
    /\ slept = 0

\* No run_scraper call has been made, the CSV file is not there.
IdleRun ==
    /\ rpc = "idle"
    /\ csv = NoCsv
    /\ stdout = <<>>
    /\ errorLog = <<>>

\* No parse_datetime_string call has been made.
IdleParse ==
    /\ hostZone = "UTC"
    /\ dtInput = [text |-> "empty", ws |-> FALSE, dt |-> NoDate]
    /\ dtOutput = [text |-> "empty", ws |-> FALSE, dt |-> NoDate]
    /\ ppc = "idle"

\* No page has been fetched.
IdleExtract ==
    /\ page = BlankPage
    /\ xurl = 0
    /\ record = [k \in {} |-> Null]
    /\ xpc = "idle"

\* No column has been coerced.
IdleCoerce ==
    /\ colName = "total_birds"
    /\ column = <<>>
    /\ coerced = <<>>
    /\ cpc = "idle"

\* No save_to_csv call has been followed.
IdleCsv ==
    /\ csvBefore = NoCsv
    /\ csvBatch = <<>>
    /\ csvFirst = <<>>
    /\ csvCalls = 0

\* The JSON file is not there; it holds text that is no JSON; it holds an
\* array.
NoJson == [state |-> "absent", entries |-> <<>>]
Undecodable == [state |-> "undecodable", entries |-> <<>>]
JsonArray(entries) == [state |-> "ok", entries |-> entries]

\* No save_to_json call has been made, the JSON file is not there.
IdleJson ==
    /\ json = NoJson
    /\ jsonBefore = NoJson
    /\ jsonBatch = <<>>
    /\ jsonCalls = 0

\* No script has been started.
IdleMain ==
    /\ entry = "scripts/birdcast_scraper.py"
    /\ argv1 = ""
    /\ mpc = "idle"
    /\ runsDone = 0
    /\ printed = <<>>
    /\ clock = 0
    /\ nextRun = 0

\* The processes that persist to one dataset location.
Writers == {1, 2}

\* No second process persists.
IdleRace ==
    /\ wpc = [w \in Writers |-> "idle"]
    /\ wbatch = [w \in Writers |-> <<>>]
    /\ wcombined = [w \in Writers |-> EmptyDF]
    /\ overlapped = FALSE
    /\ torn = FALSE

\* Nothing outside a run of the current scraper has happened.
IdleOut == IdleCsv /\ IdleJson /\ IdleMain /\ IdleRace

Init ==
    /\ IdlePersist
    /\ IdleScrape
    /\ IdleRun
    /\ IdleParse
    /\ IdleExtract
    /\ IdleCoerce
    /\ IdleOut

\* Lines 244-290: the early return on an empty data_list, the new frame, the
\* load of the existing file (absent or unreadable: the new frame alone) and
\* the deduplication. Nothing is written yet.
Load(data_list) ==
    /\ pc = "idle"
    /\ data_list # <<>>
    /\ rowsIn + Len(data_list) <= MaxRowsIn
    /\ combined' = Dedup(Combine(file, DataFrame(data_list)))
    /\ batch' = data_list
    /\ existing' = file
    /\ pc' = "loaded"
    /\ rowsIn' = rowsIn + Len(data_list)
    /\ UNCHANGED <<file, committed, lastBatch, lastPre, prevBatch>>
    /\ UNCHANGED <<scrapeVars, restVars>>

\* Line 293, first half: to_parquet opens the file at the dataset location
\* for writing, which truncates it.
WriteBegin ==
    /\ pc = "loaded"
    /\ file' = Partial
    /\ pc' = "writing"
    /\ UNCHANGED <<batch, existing, combined, committed,
                   lastBatch, lastPre, prevBatch, rowsIn>>
    /\ UNCHANGED <<scrapeVars, restVars>>

\* Line 293, second half: the table and the footer are written.
WriteEnd ==
    /\ pc = "writing"
    /\ file' = Stored(combined)
    /\ committed' = Stored(combined)
    /\ prevBatch' = lastBatch
    /\ lastBatch' = batch
    /\ lastPre' = existing
    /\ pc' = "idle"
    /\ batch' = <<>>
    /\ existing' = Absent
    /\ combined' = EmptyDF
    /\ UNCHANGED rowsIn
    /\ UNCHANGED <<scrapeVars, restVars>>

\* The process is killed from outside during the call. What it held in
\* memory is gone; the file stays as the call left it.
Kill ==
    /\ pc \in {"loaded", "writing"}
    /\ pc' = "idle"
    /\ batch' = <<>>
    /\ existing' = Absent
    /\ combined' = EmptyDF
    /\ lastBatch' = <<>>
    /\ prevBatch' = <<>>
    /\ lastPre' = Absent
    /\ UNCHANGED <<file, committed, rowsIn>>
    /\ UNCHANGED <<scrapeVars, restVars>>

Next ==
    \/ \E data_list \in Batches : Load(data_list)
    \/ WriteBegin
    \/ WriteEnd
    \/ Kill

Spec == Init /\ [][Next]_vars

\* ------------------------------------------------------------ scrape_data
\* Lines 221-223: a scrape_data call starts on the urls of its scraper.
StartScrape(url_list) ==
    /\ spc \in {"idle", "done"}
    /\ urls' = url_list
    /\ idx' = 1
    /\ all_data' = <<>>
    /\ log' = <<>>
    /\ lastResp' = NetworkError
    /\ lastData' = <<>>
    /\ slept' = 0
    /\ spc' = IF url_list = <<>> THEN "done" ELSE "fetch"
    /\ UNCHANGED <<persistVars, restVars>>

\* Lines 226-228: one scrape_single_url call, whatever the server answers,
\* and the append of its dict.
Fetch(resp, ts) ==
    /\ spc = "fetch"
    /\ LET data == ScrapeSingleUrl(urls[idx], resp, ts)
       IN /\ all_data' = all_data \o data
          /\ lastData' = data
    /\ lastResp' = resp
    /\ log' = Append(log, [url |-> urls[idx], ts |-> ts,
                           outcome |-> OutcomeOf(resp), md |-> resp.body.md])
    /\ spc' = "sleep"
    /\ UNCHANGED <<urls, idx, slept>>
    /\ UNCHANGED <<persistVars, restVars>>

\* Mutant of Sleep: the url after a failed one is skipped.
SleepSkipAfterFailure ==
    /\ spc = "sleep"
    /\ slept' = slept + 1
    /\ idx' = idx + (IF lastData = <<>> THEN 2 ELSE 1)
    /\ spc' = IF idx' > Len(urls) THEN "done" ELSE "fetch"
    /\ lastResp' = NetworkError
    /\ lastData' = <<>>
    /\ UNCHANGED <<urls, all_data, log>>
    /\ UNCHANGED <<persistVars, restVars>>

\* Line 231 and the loop's step: time.sleep(0.5), then the next url or the
\* return of all_data.
Sleep ==
    /\ spc = "sleep"
    /\ slept' = slept + 1
    /\ idx' = idx + 1
    /\ spc' = IF idx + 1 > Len(urls) THEN "done" ELSE "fetch"
    /\ lastResp' = NetworkError
    /\ lastData' = <<>>
    /\ UNCHANGED <<urls, all_data, log>>
    /\ UNCHANGED <<persistVars, restVars>>

NextScrape ==
    \/ \E url_list \in UrlLists : StartScrape(url_list)
    \/ \E resp \in Responses, ts \in Timestamps : Fetch(resp, ts)
    \/ Sleep

SpecScrape == Init /\ [][NextScrape]_vars

\* ------------------------------------- scrape_data of src/birdcast_scraper.py
\* The dict of BirdCastScraper.scrape_single_url: that of MkRecord, and the
\* debug sample when it has no key but scrape_timestamp and url.
LegacyMkRecord(ts, url, md) ==
    IF RegionOf(url) = Null /\ md = Null
       THEN MkRecord(ts, url, md) @@ ("debug_content_sample" :> 0)
       ELSE MkRecord(ts, url, md)

\* BirdCastScraper.scrape_single_url: the same checks as ScrapeSingleUrl,
\* lines 72-88 and 177-182.
LegacyScrapeSingleUrl(url, resp, ts) ==
    IF ScrapeSingleUrl(url, resp, ts) = <<>> THEN <<>>
    ELSE <<LegacyMkRecord(ts, url, resp.body.md)>>

\* Line 186: a BirdCastScraper.scrape_data call starts on self.urls.
LegacyStartScrape(url_list) ==
    /\ spc \in {"idle", "done"}
    /\ urls' = url_list
    /\ idx' = 1
    /\ all_data' = <<>>
    /\ log' = <<>>
    /\ lastResp' = NetworkError
    /\ lastData' = <<>>
    /\ slept' = 0
    /\ spc' = IF url_list = <<>> THEN "done" ELSE "legacy_fetch"
    /\ UNCHANGED <<persistVars, restVars>>

\* Lines 188-191: one pass of the loop: the scrape_single_url call and the
\* append, then the next url at once or the return of all_data.
LegacyFetch(resp, ts) ==
    /\ spc = "legacy_fetch"
    /\ LET data == LegacyScrapeSingleUrl(urls[idx], resp, ts)
       IN /\ all_data' = all_data \o data
          /\ lastData' = data
    /\ lastResp' = resp
    /\ log' = Append(log, [url |-> urls[idx], ts |-> ts,
                           outcome |-> OutcomeOf(resp), md |-> resp.body.md])
    /\ idx' = idx + 1
    /\ spc' = IF idx + 1 > Len(urls) THEN "done" ELSE "legacy_fetch"
    /\ UNCHANGED <<urls, slept>>
    /\ UNCHANGED <<persistVars, restVars>>

\* The scrape_data calls of both scrapers.
NextScrapers ==
    \/ \E url_list \in UrlLists : StartScrape(url_list)
    \/ \E resp \in Responses, ts \in Timestamps : Fetch(resp, ts)
    \/ Sleep
    \/ \E url_list \in UrlLists : LegacyStartScrape(url_list)
    \/ \E resp \in Responses, ts \in Timestamps : LegacyFetch(resp, ts)

SpecScrapers == Init /\ [][NextScrapers]_vars

\* ------------------------------------------------------------ run_scraper
\* A line of the CSV file, by the DictWriter that wrote it: fieldnames is
\* sorted(all_fieldnames), a list that the set determines. writeheader
\* writes the names; writerow writes a value per name, '' (Null) for a name
\* the dict lacks.
HeaderLine(fieldnames) ==
    [kind |-> "header", fieldnames |-> fieldnames, row |-> [f \in {} |-> Null]]

DataLine(fieldnames, data) ==
    [kind |-> "data", fieldnames |-> fieldnames, row |-> Reindex(data, fieldnames)]

\* Mutant of SaveToCsv: every call writes the header.
SaveToCsvHeaderAlways(c, data_list) ==
    IF data_list = <<>> THEN c
    ELSE LET all_fieldnames == UNION {DOMAIN data_list[i] : i \in DOMAIN data_list}
         IN [state |-> "ok",
             lines |-> c.lines
                       \o <<HeaderLine(all_fieldnames)>>
                       \o [i \in DOMAIN data_list |->
                              DataLine(all_fieldnames, data_list[i])]]

\* save_to_csv: nothing for an empty list; else the file is opened for
\* appending, the header is written only when the file was not there, and
\* each dict is written under the sorted field names of this call.
SaveToCsv(c, data_list) ==
    IF data_list = <<>> THEN c
    ELSE LET file_exists == c.state # "absent"
             all_fieldnames == UNION {DOMAIN data_list[i] : i \in DOMAIN data_list}
         IN [state |-> "ok",
             lines |-> c.lines
                       \o (IF file_exists THEN <<>>
                           ELSE <<HeaderLine(all_fieldnames)>>)
                       \o [i \in DOMAIN data_list |->
                              DataLine(all_fieldnames, data_list[i])]]

\* The lines run_scraper prints for a run without data, and the first and the
\* last line print_scraper_summary prints for a run with data.
FailureSummary ==
    <<"BirdCast Data Scraper - FAILED",
      "No data was collected. Check the logs for details.">>

SuccessSummary ==
    <<"BirdCast Data Scraper - SUCCESS",
      "Data saved to: birdcast_data.parquet & birdcast_data.csv">>

\* The datasets an earlier run can have left behind: none, or the records of
\* one batch in the dataset and in the CSV file.
PriorBatches == {<<>>} \cup {<<MkRecord(1, url, Null)>> : url \in Urls}

\* A process starts run_scraper on what earlier runs left on disk.
InitRun ==
    \E b \in PriorBatches :
        /\ file = IF b = <<>> THEN Absent ELSE Stored(Dedup(DataFrame(b)))
        /\ committed = file
        /\ csv = SaveToCsv(NoCsv, b)
        /\ rowsIn = Len(b)
        /\ pc = "idle"
        /\ batch = <<>>
        /\ existing = Absent
        /\ combined = EmptyDF
        /\ lastBatch = <<>>
        /\ lastPre = Absent
        /\ prevBatch = <<>>
        /\ IdleScrape
        /\ IdleParse
        /\ IdleExtract
        /\ IdleCoerce
        /\ IdleOut
        /\ rpc = "run"
        /\ stdout = <<>>
        /\ errorLog = <<>>

\* Lines 58-59: scraper = BirdCastScraper(); data = scraper.scrape_data().
RunScrapeData(url_list) ==
    /\ rpc = "run"
    /\ spc = "idle"
    /\ StartScrape(url_list)

\* Mutant of RunSaveToParquet: the records are persisted after each fetch.
RunSaveToParquetEachFetch ==
    /\ rpc = "run"
    /\ spc = "sleep"
    /\ all_data # <<>>
    /\ lastBatch # all_data
    /\ Load(all_data)

\* Lines 61-63: data is not empty, scraper.save_to_parquet(data) is entered.
RunSaveToParquet ==
    /\ rpc = "run"
    /\ spc = "done"
    /\ all_data # <<>>
    /\ lastBatch # all_data
    /\ Load(all_data)

\* Mutant of RunFailed: a run without data leaves a CSV file behind.
RunFailedWritesCsv ==
    /\ rpc = "run"
    /\ spc = "done"
    /\ all_data = <<>>
    /\ stdout' = stdout \o FailureSummary
    /\ errorLog' = Append(errorLog, [level |-> "ERROR", msg |-> "Scraping failed"])
    /\ csv' = [state |-> "ok", lines |-> csv.lines]
    /\ rpc' = "end"
    /\ UNCHANGED <<persistVars, scrapeVars, parseVars, extractVars, coerceVars, outVars>>

\* Lines 64-67: save_to_parquet has returned; scraper.save_to_csv(data) and
\* print_scraper_summary.
RunSaveToCsv ==
    /\ rpc = "run"
    /\ spc = "done"
    /\ all_data # <<>>
    /\ pc = "idle"
    /\ lastBatch = all_data
    /\ csv' = SaveToCsv(csv, all_data)
    /\ stdout' = stdout \o SuccessSummary
    /\ rpc' = "end"
    /\ UNCHANGED errorLog
    /\ UNCHANGED <<persistVars, scrapeVars, parseVars, extractVars, coerceVars, outVars>>

\* Lines 68-71: data is empty: the two printed lines and logger.error.
RunFailed ==
    /\ rpc = "run"
    /\ spc = "done"
    /\ all_data = <<>>
    /\ stdout' = stdout \o FailureSummary
    /\ errorLog' = Append(errorLog, [level |-> "ERROR", msg |-> "Scraping failed"])
    /\ rpc' = "end"
    /\ UNCHANGED csv
    /\ UNCHANGED <<persistVars, scrapeVars, parseVars, extractVars, coerceVars, outVars>>

NextRun ==
    \/ \E url_list \in UrlLists : RunScrapeData(url_list)
    \/ \E resp \in Responses, ts \in Timestamps : Fetch(resp, ts)
    \/ Sleep
    \/ RunSaveToParquet
    \/ WriteBegin
    \/ WriteEnd
    \/ RunSaveToCsv
    \/ RunFailed

SpecRun == InitRun /\ [][NextRun]_vars

\* The process is killed from outside while scrape_data iterates the list:
\* the records it holds are gone with it.
RunKilled ==
    /\ rpc = "run"
    /\ spc \in {"fetch", "sleep"}
    /\ rpc' = "killed"
    /\ spc' = "killed"
    /\ all_data' = <<>>
    /\ lastData' = <<>>
    /\ UNCHANGED <<urls, idx, log, lastResp, slept>>
    /\ UNCHANGED <<csv, stdout, errorLog>>
    /\ UNCHANGED <<persistVars, parseVars, extractVars, coerceVars, outVars>>

\* A run that may be killed during the iteration.
NextRunKilled ==
    \/ \E url_list \in UrlLists : RunScrapeData(url_list)
    \/ \E resp \in Responses, ts \in Timestamps : Fetch(resp, ts)
    \/ Sleep
    \/ RunSaveToParquet
    \/ WriteBegin
    \/ WriteEnd
    \/ RunSaveToCsv
    \/ RunFailed
    \/ RunKilled

SpecRunKilled == InitRun /\ [][NextRunKilled]_vars

\* Line 293 is in no try block, and run_scraper has none: when to_parquet
\* raises (the directory is missing, no permission, the disk is full), before
\* or after it truncated the file, the exception leaves save_to_parquet and
\* run_scraper.
RunWriteRaises ==
    /\ rpc = "run"
    /\ pc \in {"loaded", "writing"}
    /\ pc' = "idle"
    /\ batch' = <<>>
    /\ existing' = Absent
    /\ combined' = EmptyDF
    /\ rpc' = "raised"
    /\ UNCHANGED <<file, committed, lastBatch, lastPre, prevBatch, rowsIn>>
    /\ UNCHANGED <<csv, stdout, errorLog>>
    /\ UNCHANGED <<scrapeVars, parseVars, extractVars, coerceVars, outVars>>

\* save_to_csv, lines 350-357, is in no try block either: when open or a
\* write raises, the exception leaves run_scraper after the dataset was
\* written.
RunCsvRaises ==
    /\ rpc = "run"
    /\ spc = "done"
    /\ all_data # <<>>
    /\ pc = "idle"
    /\ lastBatch = all_data
    /\ rpc' = "raised"
    /\ UNCHANGED <<csv, stdout, errorLog>>
    /\ UNCHANGED <<persistVars, scrapeVars, parseVars, extractVars, coerceVars, outVars>>

\* A run on a machine whose output files may fail to be written.
NextRunFaults ==
    \/ \E url_list \in UrlLists : RunScrapeData(url_list)
    \/ \E resp \in Responses, ts \in Timestamps : Fetch(resp, ts)
    \/ Sleep
    \/ RunSaveToParquet
    \/ WriteBegin
    \/ WriteEnd
    \/ RunSaveToCsv
    \/ RunFailed
    \/ RunWriteRaises
    \/ RunCsvRaises

SpecRunFaults == InitRun /\ [][NextRunFaults]_vars

\* ----------------------------------------------- parse_datetime_string calls
\* A caller on some machine hands parse_datetime_string a raw string.
InitParse ==
    /\ IdlePersist
    /\ IdleScrape
    /\ IdleRun
    /\ IdleExtract
    /\ IdleCoerce
    /\ IdleOut
    /\ hostZone \in HostZones
    /\ dtInput \in DatetimeStrings
    /\ dtOutput = dtInput
    /\ ppc = "called"

\* Lines 71-91: the call returns.
ParseDatetime ==
    /\ ppc = "called"
    /\ dtOutput' = ParseDatetimeString(dtInput, hostZone)
    /\ ppc' = "returned"
    /\ UNCHANGED <<hostZone, dtInput>>
    /\ UNCHANGED <<persistVars, scrapeVars, runVars, extractVars, coerceVars, outVars>>

NextParse == ParseDatetime

SpecParse == InitParse /\ [][NextParse]_vars

\* ------------------------------------------------------------- extraction
\* A fetch on some machine got an HTML page for a url.
InitExtract ==
    /\ IdlePersist
    /\ IdleScrape
    /\ IdleRun
    /\ IdleCoerce
    /\ IdleOut
    /\ hostZone \in HostZones
    /\ dtInput = [text |-> "empty", ws |-> FALSE, dt |-> NoDate]
    /\ dtOutput = dtInput
    /\ ppc = "idle"
    /\ page \in Pages
    /\ xurl \in Urls
    /\ record = [k \in {} |-> Null]
    /\ xpc = "page"

\* scrape_single_url of scripts/scraper_utils.py, from line 122 on.
Extract(ts) ==
    /\ xpc = "page"
    /\ record' = ExtractRecord(xurl, page, ts, hostZone)
    /\ xpc' = "extracted"
    /\ UNCHANGED <<page, xurl>>
    /\ UNCHANGED <<persistVars, scrapeVars, runVars, parseVars, coerceVars, outVars>>

\* BirdCastScraper.scrape_single_url of src/birdcast_scraper.py, from line 90.
LegacyExtract(ts) ==
    /\ xpc = "page"
    /\ record' = LegacyExtractRecord(xurl, page, ts, hostZone)
    /\ xpc' = "legacy_extracted"
    /\ UNCHANGED <<page, xurl>>
    /\ UNCHANGED <<persistVars, scrapeVars, runVars, parseVars, coerceVars, outVars>>

NextExtract ==
    \/ \E ts \in Timestamps : Extract(ts)
    \/ \E ts \in Timestamps : LegacyExtract(ts)

SpecExtract == InitExtract /\ [][NextExtract]_vars

\* ------------------------------------------------------ coercion of new_df
\* save_to_parquet has built new_df from records that hold some values in
\* one field.
InitCoerce ==
    /\ IdlePersist
    /\ IdleScrape
    /\ IdleRun
    /\ IdleParse
    /\ IdleExtract
    /\ IdleOut
    /\ colName \in NumericColumns \cup {"region_name"}
    /\ column \in Columns
    /\ coerced = <<>>
    /\ cpc = "called"

\* Lines 255-257 for this column: left alone when it is none of the four,
\* else coerced, or the TypeError leaves save_to_parquet.
CoerceColumn ==
    /\ cpc = "called"
    /\ IF colName \notin NumericColumns
          THEN coerced' = column /\ cpc' = "returned"
          ELSE IF AsTypeRaises(column)
                  THEN coerced' = <<>> /\ cpc' = "raised"
                  ELSE coerced' = AsTypeInt64(column) /\ cpc' = "returned"
    /\ UNCHANGED <<colName, column>>
    /\ UNCHANGED <<persistVars, scrapeVars, runVars, parseVars, extractVars, outVars>>

NextCoerce == CoerceColumn

SpecCoerce == InitCoerce /\ [][NextCoerce]_vars

\* ------------------------------------------------------- save_to_csv calls
\* A caller hands save_to_csv one data_list after the other, for one file.
CsvCall(data_list) ==
    /\ csvCalls < MaxCsvCalls
    /\ csv' = SaveToCsv(csv, data_list)
    /\ csvBefore' = csv
    /\ csvBatch' = data_list
    /\ csvFirst' = IF csvFirst = <<>> THEN data_list ELSE csvFirst
    /\ csvCalls' = csvCalls + 1
    /\ UNCHANGED <<rpc, stdout, errorLog, jsonVars, mainVars, raceVars>>
    /\ UNCHANGED <<persistVars, scrapeVars, parseVars, extractVars, coerceVars>>

NextCsv == \E data_list \in Batches : CsvCall(data_list)

SpecCsv == Init /\ [][NextCsv]_vars

\* ------------------------------------------------------ save_to_json calls
\* Lines 312-319: existing_data. The file is there and json.load reads it:
\* its array; not there, or JSONDecodeError: the empty list.
ExistingData(j) == IF j.state = "ok" THEN j.entries ELSE <<>>

\* Mutant of SaveToJson: the file is rewritten with the batch alone.
SaveToJsonBatchOnly(j, data_list) ==
    IF data_list = <<>> THEN j
    ELSE JsonArray(data_list)

\* save_to_json: nothing for an empty list; else existing_data is extended
\* by the list and the file is rewritten with it. json.dump and json.load
\* give back a list of dicts with string keys and integer values as it was.
SaveToJson(j, data_list) ==
    IF data_list = <<>> THEN j
    ELSE JsonArray(ExistingData(j) \o data_list)

\* The JSON file a caller can find: none, one that is no JSON, or the array
\* of an earlier call.
InitJson ==
    /\ IdlePersist
    /\ IdleScrape
    /\ IdleRun
    /\ IdleParse
    /\ IdleExtract
    /\ IdleCoerce
    /\ IdleCsv
    /\ IdleMain
    /\ IdleRace
    /\ json \in {NoJson, Undecodable} \cup {JsonArray(b) : b \in PriorBatches \ {<<>>}}
    /\ jsonBefore = json
    /\ jsonBatch = <<>>
    /\ jsonCalls = 0

\* A caller hands save_to_json one data_list after the other, for one file.
JsonCall(data_list) ==
    /\ jsonCalls < MaxJsonCalls
    /\ json' = SaveToJson(json, data_list)
    /\ jsonBefore' = json
    /\ jsonBatch' = data_list
    /\ jsonCalls' = jsonCalls + 1
    /\ UNCHANGED <<csvVars, mainVars, raceVars>>
    /\ UNCHANGED <<persistVars, scrapeVars, runVars, parseVars, extractVars, coerceVars>>

NextJson == \E data_list \in Batches : JsonCall(data_list)

SpecJson == InitJson /\ [][NextJson]_vars

\* ------------------------------------------------------ the entry points
\* The scripts with a __main__ block that starts a scrape run.
EntryPoints ==
    {"scripts/birdcast_scraper.py", "birdcast_scraper.py",
     "scripts/mississippi_flyway_scraper.py", "scripts/pacific_flyway_scraper.py"}

\* sys.argv[1] as the blocks test it; "" for a start without arguments.
Arguments == {"", "--test", "--schedule", "--verbose"}

\* The if/elif/else of each __main__ block.
Dispatch(script, arg) ==
    CASE script \in {"scripts/birdcast_scraper.py",
                     "scripts/mississippi_flyway_scraper.py"} ->
            IF arg = "--schedule" THEN "schedule" ELSE "run_once"
      [] script = "birdcast_scraper.py" ->
            IF arg = "--schedule" THEN "schedule"
            ELSE IF arg = "--test" THEN "run_once"
            ELSE "usage"
      [] OTHER ->
            IF arg = "--test" THEN "run_once" ELSE "usage"

\* schedule.every().day.at("12:00"), at("14:00") for the Mississippi
\* scraper: the tick of the day the job is set for.
ScheduledAt(script) ==
    IF script = "scripts/mississippi_flyway_scraper.py" THEN 3 ELSE 2

\* The next time of day `at` after tick t.
NextAt(t, at) ==
    CHOOSE u \in (t + 1)..(t + TicksPerDay) : u % TicksPerDay = at

\* What a scrape run prints first.
RunOutcomes == {"SUCCESS", "FAILED"}

\* A process is started with a script and an argument at some time of day.
InitMain ==
    /\ IdlePersist
    /\ IdleScrape
    /\ IdleRun
    /\ IdleParse
    /\ IdleExtract
    /\ IdleCoerce
    /\ IdleCsv
    /\ IdleJson
    /\ IdleRace
    /\ entry \in EntryPoints
    /\ argv1 \in Arguments
    /\ mpc = "start"
    /\ runsDone = 0
    /\ printed = <<>>
    /\ clock \in 0..(TicksPerDay - 1)
    /\ nextRun = 0

\* The __main__ block up to the call it makes: schedule_daily_scraping sets
\* the job, run_scraper is entered, or the usage text is printed.
Main ==
    /\ mpc = "start"
    /\ LET mode == Dispatch(entry, argv1)
       IN /\ mpc' = CASE mode = "schedule" -> "run_pending"
                      [] mode = "run_once" -> "run_scraper"
                      [] OTHER -> "end"
          /\ printed' = IF mode = "usage" THEN <<"Usage:">> ELSE printed
          /\ nextRun' = IF mode = "schedule" THEN NextAt(clock, ScheduledAt(entry))
                        ELSE nextRun
    /\ UNCHANGED <<entry, argv1, runsDone, clock>>
    /\ UNCHANGED <<csvVars, jsonVars, raceVars>>
    /\ UNCHANGED <<persistVars, scrapeVars, runVars, parseVars, extractVars, coerceVars>>

\* The one run_scraper call of a run-once start returns; the script ends.
RunOnce(outcome) ==
    /\ mpc = "run_scraper"
    /\ runsDone' = runsDone + 1
    /\ printed' = Append(printed, outcome)
    /\ mpc' = "end"
    /\ UNCHANGED <<entry, argv1, clock, nextRun>>
    /\ UNCHANGED <<csvVars, jsonVars, raceVars>>
    /\ UNCHANGED <<persistVars, scrapeVars, runVars, parseVars, extractVars, coerceVars>>

\* schedule.run_pending(): the job runs when it is due and is set for the
\* next day.
RunPending(outcome) ==
    /\ mpc = "run_pending"
    /\ IF clock >= nextRun
          THEN /\ runsDone' = runsDone + 1
               /\ printed' = Append(printed, outcome)
               /\ nextRun' = NextAt(clock, ScheduledAt(entry))
          ELSE UNCHANGED <<runsDone, printed, nextRun>>
    /\ mpc' = "sleep"
    /\ UNCHANGED <<entry, argv1, clock>>
    /\ UNCHANGED <<csvVars, jsonVars, raceVars>>
    /\ UNCHANGED <<persistVars, scrapeVars, runVars, parseVars, extractVars, coerceVars>>

\* time.sleep(60) of the while True loop.
SleepMinute ==
    /\ mpc = "sleep"
    /\ clock < MaxClock
    /\ clock' = clock + 1
    /\ mpc' = "run_pending"
    /\ UNCHANGED <<entry, argv1, runsDone, printed, nextRun>>
    /\ UNCHANGED <<csvVars, jsonVars, raceVars>>
    /\ UNCHANGED <<persistVars, scrapeVars, runVars, parseVars, extractVars, coerceVars>>

NextMain ==
    \/ Main
    \/ \E outcome \in RunOutcomes : RunOnce(outcome)
    \/ \E outcome \in RunOutcomes : RunPending(outcome)
    \/ SleepMinute

SpecMain == InitMain /\ [][NextMain]_vars

\* ----------------------------------------- two persists on one location
\* Two processes are about to call save_to_parquet for the dataset an
\* earlier run left behind.
InitRace ==
    \E b \in PriorBatches :
        /\ file = IF b = <<>> THEN Absent ELSE Stored(Dedup(DataFrame(b)))
        /\ committed = file
        /\ rowsIn = Len(b)
        /\ pc = "idle"
        /\ batch = <<>>
        /\ existing = Absent
        /\ combined = EmptyDF
        /\ lastBatch = <<>>
        /\ lastPre = Absent
        /\ prevBatch = <<>>
        /\ IdleScrape
        /\ IdleRun
        /\ IdleParse
        /\ IdleExtract
        /\ IdleCoerce
        /\ IdleCsv
        /\ IdleJson
        /\ IdleMain
        /\ IdleRace

\* The other process is between its load and the end of its write.
OtherInside(w) == \E v \in Writers \ {w} : wpc[v] \in {"loaded", "writing"}

\* Lines 244-290 in process w: as Load, on the file as it is now.
RaceLoad(w, data_list) ==
    /\ wpc[w] = "idle"
    /\ data_list # <<>>
    /\ wcombined' = [wcombined EXCEPT
                        ![w] = Dedup(Combine(file, DataFrame(data_list)))]
    /\ wbatch' = [wbatch EXCEPT ![w] = data_list]
    /\ wpc' = [wpc EXCEPT ![w] = "loaded"]
    /\ overlapped' = (overlapped \/ OtherInside(w))
    /\ UNCHANGED torn
    /\ UNCHANGED <<csvVars, jsonVars, mainVars>>
    /\ UNCHANGED <<persistVars, scrapeVars, runVars, parseVars, extractVars, coerceVars>>

\* Line 293, first half, in process w: the file is truncated.
RaceWriteBegin(w) ==
    /\ wpc[w] = "loaded"
    /\ file' = Partial
    /\ wpc' = [wpc EXCEPT ![w] = "writing"]
    /\ torn' = (torn \/ \E v \in Writers \ {w} : wpc[v] = "writing")
    /\ UNCHANGED <<wbatch, wcombined, overlapped>>
    /\ UNCHANGED <<pc, batch, existing, combined, committed,
                   lastBatch, lastPre, prevBatch, rowsIn>>
    /\ UNCHANGED <<csvVars, jsonVars, mainVars>>
    /\ UNCHANGED <<scrapeVars, runVars, parseVars, extractVars, coerceVars>>

\* Line 293, second half, in process w: its table is written. When both
\* processes had the file open, the bytes of the two writes can be mixed:
\* the file then holds the table of w or nothing readable.
RaceWriteEnd(w) ==
    /\ wpc[w] = "writing"
    /\ file' \in IF torn THEN {Stored(wcombined[w]), Partial}
                          ELSE {Stored(wcombined[w])}
    /\ wpc' = [wpc EXCEPT ![w] = "done"]
    /\ UNCHANGED <<wbatch, wcombined, overlapped, torn>>
    /\ UNCHANGED <<pc, batch, existing, combined, committed,
                   lastBatch, lastPre, prevBatch, rowsIn>>
    /\ UNCHANGED <<csvVars, jsonVars, mainVars>>
    /\ UNCHANGED <<scrapeVars, runVars, parseVars, extractVars, coerceVars>>

NextRace ==
    \/ \E w \in Writers, data_list \in RaceBatches : RaceLoad(w, data_list)
    \/ \E w \in Writers : RaceWriteBegin(w)
    \/ \E w \in Writers : RaceWriteEnd(w)

SpecRace == InitRace /\ [][NextRace]_vars

\* ----------------------------------------------------------------- claims
\* What the specification calls the day-key of a row: its migration_date
\* when it has one, else the calendar date of its scrape_timestamp.
HasField(row, f) == f \in DOMAIN row /\ row[f] # Null

DayKeyOf(row) ==
    IF HasField(row, "migration_date")
       THEN <<"migration_date", row["migration_date"]>>
       ELSE <<"date", DateOf(row["scrape_timestamp"])>>

SameRegionDay(a, b) ==
    /\ HasField(a, "region_code")
    /\ HasField(b, "region_code")
    /\ a["region_code"] = b["region_code"]
    /\ DayKeyOf(a) = DayKeyOf(b)

RowsOf(seq) == {seq[i] : i \in DOMAIN seq}

\* A persist has completed and the dataset location holds what it wrote.
Persisted == file.state = "ok" /\ lastBatch # <<>>

\* Two persists have completed one right after the other.
PersistedTwice == Persisted /\ prevBatch # <<>>

\* Every row the last completed persist had before it: the rows it loaded
\* and the records of its batch.
InputRows == RowsOf(lastPre.df.rows) \cup RowsOf(lastBatch)

NoRegion(seq) == {i \in DOMAIN seq : ~HasField(seq[i], "region_code")}

\* C1: after every completed persist the dataset holds at most one row for
\* each pair (region_code, day-key).
C1_OneRowPerRegionDay ==
    file.state = "ok" =>
        \A i, j \in DOMAIN file.df.rows :
            i # j => ~SameRegionDay(file.df.rows[i], file.df.rows[j])

\* C1 witness: a persist completed that dropped a duplicate and left two
\* rows of one region with different day-keys.
C1_Witness ==
    /\ Persisted
    /\ Len(file.df.rows) < Len(lastPre.df.rows) + Len(lastBatch)
    /\ \E i, j \in DOMAIN file.df.rows :
          /\ i # j
          /\ HasField(file.df.rows[i], "region_code")
          /\ file.df.rows[i]["region_code"] = file.df.rows[j]["region_code"]

\* C2: two batches persisted one after the other, each with a row of the same
\* region_code and day-key but another scrape_timestamp: exactly one row with
\* that key is in the dataset afterwards and neither of the two is later.
C2_LaterRowWins ==
    PersistedTwice =>
        \A a \in RowsOf(prevBatch), b \in RowsOf(lastBatch) :
            (SameRegionDay(a, b) /\ a["scrape_timestamp"] # b["scrape_timestamp"])
            => LET hits == {i \in DOMAIN file.df.rows :
                               SameRegionDay(file.df.rows[i], a)}
               IN /\ Cardinality(hits) = 1
                  /\ \A i \in hits :
                        /\ file.df.rows[i]["scrape_timestamp"] >= a["scrape_timestamp"]
                        /\ file.df.rows[i]["scrape_timestamp"] >= b["scrape_timestamp"]

\* C3 as claimed: persisting the same batch twice in a row leaves as many
\* rows as persisting it once, for every batch and every prior dataset.
C3_IdempotentAlways ==
    (PersistedTwice /\ prevBatch = lastBatch)
    => Len(file.df.rows) = Len(lastPre.df.rows)

\* C3 amended: the same, for every batch whose records all have a
\* region_code, and every prior dataset.
C3_IdempotentWithRegionCode ==
    (PersistedTwice /\ prevBatch = lastBatch /\ NoRegion(lastBatch) = {})
    => Len(file.df.rows) = Len(lastPre.df.rows)

\* C3 witness: a batch of two records with a region_code was persisted twice
\* in a row, and the second persist dropped both again.
C3_Witness ==
    /\ PersistedTwice
    /\ prevBatch = lastBatch
    /\ NoRegion(lastBatch) = {}
    /\ Len(lastBatch) = 2
    /\ Len(file.df.rows) = Len(lastPre.df.rows)
    /\ Len(file.df.rows) >= 2

\* C4: the column set of the dataset never shrinks from one
\* completely written dataset to the next.
C4_ColumnsNeverShrink ==
    [][file'.state = "ok" => committed.df.cols \subseteq file'.df.cols]_vars

\* The fields the last persist's batch introduced: held by a record of the
\* batch and by no row of the dataset it read.
NewFields ==
    {f \in Fields : /\ \A p \in RowsOf(lastPre.df.rows) : ~HasField(p, f)
                    /\ \E r \in RowsOf(lastBatch) : f \in DOMAIN r}

IsPriorRow(r, f) ==
    \E p \in RowsOf(lastPre.df.rows) :
        /\ \A g \in lastPre.df.cols : r[g] = p[g]
        /\ \A g \in DOMAIN r \ lastPre.df.cols : r[g] = Null
        /\ r[f] = Null

IsBatchRow(r) ==
    \E b \in RowsOf(lastBatch) :
        \A g \in DOMAIN r : r[g] = IF g \in DOMAIN b THEN b[g] ELSE Null

\* C5: when a batch introduces a field, every row of the resulting dataset is
\* a prior row with null in that field or a record of the batch with its own
\* values.
C5_NewFieldNullInPriorRows ==
    (Persisted /\ lastPre.state = "ok") =>
        \A f \in NewFields :
            /\ f \in file.df.cols
            /\ \A r \in RowsOf(file.df.rows) : IsPriorRow(r, f) \/ IsBatchRow(r)

\* C5 witness: a batch introduced a field; a prior row survives with null in
\* it and a new row survives with its value.
C5_Witness ==
    /\ Persisted
    /\ lastPre.state = "ok"
    /\ \E f \in NewFields :
          /\ \E r \in RowsOf(file.df.rows) : r[f] # Null /\ IsBatchRow(r)
          /\ \E r \in RowsOf(file.df.rows) : IsPriorRow(r, f) /\ ~IsBatchRow(r)

\* C8: two rows of one region_code that both lack migration_date and were
\* scraped on different calendar days both survive the persist.
C8_DayKeyPerRow ==
    Persisted =>
        \A a, b \in InputRows :
            ( /\ HasField(a, "region_code")
              /\ HasField(b, "region_code")
              /\ a["region_code"] = b["region_code"]
              /\ ~HasField(a, "migration_date")
              /\ ~HasField(b, "migration_date")
              /\ DateOf(a["scrape_timestamp"]) # DateOf(b["scrape_timestamp"]) )
            => \E r \in RowsOf(file.df.rows) : SameRegionDay(r, a)

\* C9: every row without a region_code that the persist loaded or was handed
\* is still in the dataset.
C9_NoRegionRowsKept ==
    Persisted =>
        Cardinality(NoRegion(file.df.rows))
            = Cardinality(NoRegion(lastPre.df.rows)) + Cardinality(NoRegion(lastBatch))

\* C10: the dataset location always holds the last completely written
\* dataset: the previous one until the new one is complete.
C10_AtomicRewrite == file = committed

\* The records the fetches logged so far should have given: one per fetch
\* whose outcome is "ok", in fetch order.
RECURSIVE RecordsOfLog(_)
RecordsOfLog(entries) ==
    IF entries = <<>> THEN <<>>
    ELSE LET e == Head(entries)
         IN (IF e.outcome = "ok" THEN <<MkRecord(e.ts, e.url, e.md)>> ELSE <<>>)
            \o RecordsOfLog(Tail(entries))

\* C6: a region whose fetch fails in any way contributes no record, every
\* region after it is still fetched, and the batch holds exactly the records
\* of the regions that succeeded.
C6_FailedRegionSkipped ==
    /\ all_data = RecordsOfLog(log)
    /\ \A i \in DOMAIN log : log[i].url = urls[i]
    /\ spc = "done" => Len(log) = Len(urls)

\* C6 witness: a run ended whose first region failed and whose second region
\* gave the only record of the batch.
C6_Witness ==
    /\ spc = "done"
    /\ Len(log) = 2
    /\ log[1].outcome # "ok"
    /\ log[2].outcome = "ok"
    /\ Len(all_data) = 1
    /\ all_data[1]["url"] = urls[2]

\* C7: scrape_single_url yields a record only if the status is a success
\* status, the content type indicates HTML and the body does not look like a
\* stylesheet; and it yields one whenever these hold for an HTML page.
C7_RecordIffHtmlPage ==
    spc = "sleep" =>
        /\ lastData # <<>> =>
              /\ lastResp.transport = "ok"
              /\ lastResp.status < 400
              /\ ContainsTextHtml(Lower(lastResp.content_type))
              /\ ~CssLike(lastResp.body)
        /\ ( /\ lastResp.transport = "ok"
             /\ lastResp.status < 400
             /\ ContainsTextHtml(Lower(lastResp.content_type))
             /\ lastResp.body.page = "html"
             /\ ~lastResp.raises )
           => lastData # <<>>

AllFailed == \A i \in DOMAIN log : log[i].outcome # "ok"

C13_TimestampAndUrlAlways ==
    \A i \in DOMAIN all_data :
        /\ {"scrape_timestamp", "url"} \subseteq DOMAIN all_data[i]
        /\ all_data[i]["scrape_timestamp"] \in Timestamps
        /\ \E j \in DOMAIN log : /\ all_data[i]["url"] = log[j].url
                                  /\ all_data[i]["scrape_timestamp"] = log[j].ts

\* C13 witness: scrape_data returned a batch with a record of these two
\* fields only, next to a record with more.
C13_Witness ==
    /\ spc = "done"
    /\ Len(all_data) = 2
    /\ DOMAIN all_data[1] = {"scrape_timestamp", "url"}
    /\ DOMAIN all_data[2] # {"scrape_timestamp", "url"}

\* The UTC offset, in hours, of a US timezone abbreviation.
UtcOffset(tz) ==
    CASE tz = "EDT" -> -4
      [] tz \in {"EST", "CDT"} -> -5
      [] tz \in {"CST", "MDT"} -> -6
      [] tz \in {"MST", "PDT"} -> -7
      [] OTHER -> -8

\* C16: a timestamp string with one of the eight US timezone abbreviations is
\* turned into the UTC instant that lies the zone's offset away from the
\* local time; 8 PM EDT on day 0 gives hour 0 of day 1.
C16_AbbreviationConvertedToUtc ==
    (ppc = "returned" /\ dtInput.text = "datetime"
                      /\ dtInput.dt.tz \in TzAbbreviations) =>
        LET utc == 24 * dtInput.dt.day + Hour24(dtInput.dt.h12, dtInput.dt.pm)
                   - UtcOffset(dtInput.dt.tz)
        IN /\ dtOutput.text = "iso"
           /\ dtOutput.dt.day = utc \div 24
           /\ dtOutput.dt.h24 = utc % 24

\* C17: for a string the parser cannot parse, parse_datetime_string returns
\* its argument, whitespace included.
C17_UnparsableReturnedVerbatim ==
    (ppc = "returned" /\ dtInput.text # "datetime") => dtOutput = dtInput

\* The optional patterns of a page text, the fields each gives, whether a
\* page lacks the pattern, and the page without it.
Patterns ==
    {"region_name", "crossed", "peak", "direction", "speed", "altitude",
     "times", "date"}

KeysOf(pat) ==
    CASE pat = "region_name" -> {"region_name"}
      [] pat = "crossed" -> {"total_birds"}
      [] pat = "peak" -> {"peak_birds_in_flight"}
      [] pat = "direction" -> {"flight_direction"}
      [] pat = "speed" -> {"flight_speed_mph"}
      [] pat = "altitude" -> {"flight_altitude_ft"}
      [] pat = "times" -> {"migration_start_raw", "migration_end_raw",
                           "migration_start_utc", "migration_end_utc"}
      [] OTHER -> {"migration_date"}

LacksPattern(pg, pat) ==
    CASE pat = "region_name" -> ~pg.region_name
      [] pat = "crossed" -> pg.crossed.num = <<>>
      [] pat = "peak" -> pg.peak.num = <<>>
      [] pat = "direction" -> pg.direction = ""
      [] pat = "speed" -> pg.speed = ""
      [] pat = "altitude" -> pg.altitude = ""
      [] pat = "times" -> pg.times < 2
      [] OTHER -> pg.md = Null

Without(pg, pat) ==
    CASE pat = "region_name" -> [pg EXCEPT !.region_name = FALSE]
      [] pat = "crossed" -> [pg EXCEPT !.crossed = NoCrossed]
      [] pat = "peak" -> [pg EXCEPT !.peak = NoPeak]
      [] pat = "direction" -> [pg EXCEPT !.direction = ""]
      [] pat = "speed" -> [pg EXCEPT !.speed = ""]
      [] pat = "altitude" -> [pg EXCEPT !.altitude = ""]
      [] pat = "times" -> [pg EXCEPT !.times = 0, !.labelled = FALSE]
      [] OTHER -> [pg EXCEPT !.md = Null]

\* C14: a page that lacks an optional pattern gives a record without the
\* pattern's fields, and the same page without a pattern gives the same
\* record less that pattern's fields.
C14_MissingPatternFieldAbsent ==
    xpc = "extracted" =>
        /\ \A pat \in Patterns :
              LacksPattern(page, pat) => KeysOf(pat) \cap DOMAIN record = {}
        /\ \A pat \in Patterns :
              LET other == ExtractRecord(xurl, Without(page, pat),
                                         record["scrape_timestamp"], hostZone)
              IN /\ DOMAIN other = DOMAIN record \ KeysOf(pat)
                 /\ \A k \in DOMAIN other : other[k] = record[k]

\* C14 witness: a page with the crossed phrase and two timestamps, without
\* the peak phrase and the date, gave a record with the fields of the former
\* and without those of the latter.
C14_Witness ==
    /\ xpc = "extracted"
    /\ page.crossed.num # <<>>
    /\ page.peak = NoPeak
    /\ page.times = 2
    /\ page.md = Null
    /\ {"total_birds", "migration_start_utc"} \subseteq DOMAIN record
    /\ {"peak_birds_in_flight", "migration_date"} \cap DOMAIN record = {}

\* An integer written with thousands separators: digits with a comma before
\* every group of three from the right, and nowhere else.
WellSeparated(str) ==
    /\ str # <<>>
    /\ str[1] \in Digits
    /\ \A i \in DOMAIN str : (str[i] = ",") <=> ((Len(str) - i) % 4 = 3)

\* C15: a page with such an integer right before a "Birds crossed ... last
\* night" phrase, in any letter case, gives total_birds equal to the integer.
C15_TotalBirdsFromPhrase ==
    (xpc \in {"extracted", "legacy_extracted"}
        /\ WellSeparated(page.crossed.num)) =>
        /\ "total_birds" \in DOMAIN record
        /\ record["total_birds"] = IntOf(RemoveCommas(page.crossed.num))

\* C19: a page with "N Birds in flight" and a page with "Peak of N birds in
\* flight" both give peak_birds_in_flight equal to N.
C19_BothPeakDialects ==
    (xpc \in {"extracted", "legacy_extracted"}
        /\ WellSeparated(page.peak.num)) =>
        /\ "peak_birds_in_flight" \in DOMAIN record
        /\ record["peak_birds_in_flight"] = IntOf(RemoveCommas(page.peak.num))

\* C20: a record has the debug_content_sample, of at most 500 characters, if
\* and only if it has no field besides scrape_timestamp, url and region_code.
C20_DebugSampleIffNoData ==
    xpc \in {"extracted", "legacy_extracted"} =>
        /\ ("debug_content_sample" \in DOMAIN record)
              <=> (DOMAIN record \ {"debug_content_sample"}
                      \subseteq {"scrape_timestamp", "url", "region_code"})
        /\ "debug_content_sample" \in DOMAIN record
              => record["debug_content_sample"].chars <= DebugSampleLen

\* A value that is an integer: an int, an integral float, a string that
\* reads as an integral number.
IsInteger(cell) == cell.kind # "none" /\ cell.numeric /\ ~cell.half

\* C18: persist coerces each of the four columns to nullable integers: every
\* value that is no integer becomes null, and persist does not raise.
C18_NonIntegerBecomesNull ==
    (cpc \in {"returned", "raised"} /\ colName \in NumericColumns) =>
        /\ cpc = "returned"
        /\ DOMAIN coerced = DOMAIN column
        /\ \A i \in DOMAIN column :
              coerced[i] = IF IsInteger(column[i]) THEN column[i].n ELSE Null

\* The header lines of a CSV file.
HeaderLines(c) == {i \in DOMAIN c.lines : c.lines[i].kind = "header"}

FieldUnion(data_list) == UNION {DOMAIN data_list[i] : i \in DOMAIN data_list}

\* C21: after any sequence of save_to_csv calls on one file, once a batch
\* was not empty the file has exactly one header line, its first line, with
\* the field union of the first non-empty batch; a call keeps every line
\* that was there and adds one data line per record of its batch, in batch
\* order; a call with an empty batch leaves the file alone.
C21_CsvAppendOnlyOneHeader ==
    csvCalls > 0 =>
        /\ csvBatch = <<>> => csv = csvBefore
        /\ csvFirst # <<>> =>
              /\ csv.state = "ok"
              /\ HeaderLines(csv) = {1}
              /\ csv.lines[1].fieldnames = FieldUnion(csvFirst)
        /\ csvBatch # <<>> =>
              LET old == Len(csvBefore.lines)
                  head == IF csvBefore.state = "absent" THEN 1 ELSE 0
              IN /\ Len(csv.lines) = old + head + Len(csvBatch)
                 /\ \A i \in 1..old : csv.lines[i] = csvBefore.lines[i]
                 /\ \A k \in DOMAIN csvBatch :
                       LET line == csv.lines[old + head + k]
                       IN /\ line.kind = "data"
                          /\ \A f \in DOMAIN csvBatch[k] :
                                f \in DOMAIN line.row /\ line.row[f] = csvBatch[k][f]
                          /\ \A f \in DOMAIN line.row \ DOMAIN csvBatch[k] :
                                line.row[f] = Null

\* C21 witness: the second call appended two records whose fields are not
\* those of the header to a file an earlier call had created.
C21_Witness ==
    /\ csvCalls = 2
    /\ csvBefore.state = "ok"
    /\ Len(csvBatch) = 2
    /\ csvBatch[1] # csvBatch[2]
    /\ FieldUnion(csvBatch) # csv.lines[1].fieldnames

\* C29: a save_to_json call with a non-empty batch leaves the JSON file as
\* the array it held followed by the records of the batch in order: every
\* entry stays where it was, none is dropped as a duplicate, the length
\* grows by the length of the batch; a call with an empty batch leaves the
\* file as it was.
C29_JsonExtendedNotDeduplicated ==
    jsonCalls > 0 =>
        /\ jsonBatch = <<>> => json = jsonBefore
        /\ jsonBatch # <<>> =>
              /\ json.state = "ok"
              /\ Len(json.entries) = Len(jsonBefore.entries) + Len(jsonBatch)
              /\ \A i \in DOMAIN jsonBefore.entries :
                    json.entries[i] = jsonBefore.entries[i]
              /\ \A k \in DOMAIN jsonBatch :
                    json.entries[Len(jsonBefore.entries) + k] = jsonBatch[k]

\* C29 witness: the second call added, to an array that was there, a batch
\* with a record the array already held.
C29_Witness ==
    /\ jsonCalls = 2
    /\ jsonBefore.state = "ok"
    /\ jsonBefore.entries # <<>>
    /\ Len(jsonBatch) = 2
    /\ \E i \in DOMAIN jsonBefore.entries : jsonBatch[1] = jsonBefore.entries[i]
    /\ Len(json.entries) >= 4

\* C22: a script started without a mode argument makes exactly one scrape
\* run and ends, as a start with --test does; only a start with --schedule
\* is ever in the scheduling loop.
C22_BareDefaultRunsOnce ==
    /\ (mpc = "end" /\ argv1 \in {"", "--test"}) => runsDone = 1
    /\ (mpc \in {"run_pending", "sleep"}) => argv1 = "--schedule"
    /\ argv1 \in {"", "--test"} => mpc \in {"start", "run_scraper", "end"}

\* The number of fetches a scrape_data call has made when it stands at idx.
FetchesMade ==
    CASE spc = "idle" -> 0
      [] spc = "sleep" -> idx
      [] OTHER -> idx - 1

\* C23: in a scrape_data call the i-th fetch is that of the i-th url, each
\* url is fetched once and the call returns after the last; the batch is
\* the records of the successful fetches at increasing positions of the url
\* list, so no longer than the list.
C23_EachUrlOnceInOrder ==
    /\ Len(log) = FetchesMade
    /\ \A i \in DOMAIN log : log[i].url = urls[i]
    /\ spc = "done" => DOMAIN log = DOMAIN urls
    /\ Len(all_data) <= Len(urls)
    /\ \E at \in [DOMAIN all_data -> DOMAIN log] :
          /\ \A j, k \in DOMAIN all_data : j < k => at[j] < at[k]
          /\ \A k \in DOMAIN all_data :
                /\ all_data[k]["url"] = urls[at[k]]
                /\ all_data[k]["scrape_timestamp"] = log[at[k]].ts
                /\ log[at[k]].outcome = "ok"
          /\ \A i \in DOMAIN log :
                log[i].outcome = "ok" => \E k \in DOMAIN all_data : at[k] = i

\* C23 witness: a call over two different urls returned with the records of
\* both, in the order of the list.
C23_Witness ==
    /\ spc = "done"
    /\ Len(urls) = 2
    /\ urls[1] # urls[2]
    /\ Len(all_data) = 2
    /\ all_data[1]["url"] = urls[1]
    /\ all_data[2]["url"] = urls[2]

\* C24: a fetch is one blocking call, so one request at most is in flight;
\* and between the end of a fetch and the start of the next the delay has
\* been taken: a call that has made n fetches has slept at least n - 1
\* times, and n times when it is about to fetch again.
C24_DelayBetweenFetches ==
    /\ Len(log) <= slept + 1
    /\ spc \in {"fetch", "legacy_fetch"} => slept = Len(log)

\* C25: in a run no step changes the dataset, the CSV file or the JSON file
\* before every url of the list has been fetched, the step that kills the
\* run during the iteration included; a run killed there has written nothing,
\* the dataset is the one that was there, whole.
C25_NoWriteBeforeAllAttempted ==
    /\ [][(file' # file \/ csv' # csv \/ json' # json) =>
            (spc = "done" /\ Len(log) = Len(urls))]_vars
    /\ [](rpc = "killed" =>
            (file = committed /\ pc = "idle" /\ lastBatch = <<>>))

\* C25 witness: a run over two urls was killed after the first had given a
\* record, with the dataset and the CSV file of an earlier run on disk.
C25_Witness ==
    /\ rpc = "killed"
    /\ Len(urls) = 2
    /\ Len(log) = 1
    /\ log[1].outcome = "ok"
    /\ file.state = "ok"
    /\ csv.state = "ok"

\* The (region_code, day-key) pair of a row, the region_code missing or not.
RegionDayOf(row) ==
    <<IF HasField(row, "region_code") THEN row["region_code"] ELSE Null,
      DayKeyOf(row)>>

\* The row r of the dataset is the record rec.
IsRecord(r, rec) ==
    /\ \A f \in DOMAIN rec : f \in DOMAIN r /\ r[f] = rec[f]
    /\ \A f \in DOMAIN r \ DOMAIN rec : r[f] = Null

\* Record i of the batch of process w has a (region_code, day-key) that no
\* other row has, of the dataset that was there or of the two batches, and
\* the final dataset does not hold it.
LostRow(w, i) ==
    /\ \A r \in RowsOf(committed.df.rows) : RegionDayOf(r) # RegionDayOf(wbatch[w][i])
    /\ \A v \in Writers : \A j \in DOMAIN wbatch[v] :
          <<v, j>> # <<w, i>> => RegionDayOf(wbatch[v][j]) # RegionDayOf(wbatch[w][i])
    /\ \A r \in RowsOf(file.df.rows) : ~IsRecord(r, wbatch[w][i])

BothDone == \A w \in Writers : wpc[w] = "done"

\* C26: two persists on one location that interleave can leave a final
\* dataset without a row of one batch whose (region_code, day-key) no other
\* row has; two persists that run one after the other cannot.
C26_LostOnlyWhenInterleaved ==
    (BothDone /\ ~overlapped) =>
        \A w \in Writers : \A i \in DOMAIN wbatch[w] : ~LostRow(w, i)

\* C30: persists that run one at a time on a location that stays readable
\* lose no (region_code, day-key): after each of them every pair of a row it
\* loaded or was handed still has a row, that of the latest scrape_timestamp
\* among the rows with the pair. By induction this is the claim for every
\* pair of every batch persisted so far.
C30_NoKeyLost ==
    (Persisted /\ lastPre.state # "partial") =>
        \A a \in InputRows :
            HasField(a, "region_code") =>
                \E r \in RowsOf(file.df.rows) :
                    /\ SameRegionDay(r, a)
                    /\ \A b \in InputRows :
                          SameRegionDay(a, b) =>
                              r["scrape_timestamp"] >= b["scrape_timestamp"]

\* C27: whatever the fetches, the extraction, the reading and the writing of
\* the dataset give, run_scraper returns and no exception leaves it; a run
\* that ended either reports success or the empty batch, the latter exactly
\* when no region gave a record.
C27_NoFailureLeavesRun ==
    /\ rpc # "raised"
    /\ rpc = "end" =>
          /\ stdout \in {SuccessSummary, FailureSummary}
          /\ stdout = FailureSummary <=> all_data = <<>>

\* C28: start and end are extracted independently, the label-anchored
\* pattern being tried for a bound the strict pattern did not give: a page
\* with a start timestamp after "Starting:" gives migration_start_raw, with
\* an end timestamp or without; and a record has each raw field exactly
\* when it has the normalized one.
C28_StartWithoutEnd ==
    xpc \in {"extracted", "legacy_extracted"} =>
        /\ (page.labelled /\ page.times >= 1) =>
              "migration_start_raw" \in DOMAIN record
        /\ "migration_start_raw" \in DOMAIN record
              <=> "migration_start_utc" \in DOMAIN record
        /\ "migration_end_raw" \in DOMAIN record
              <=> "migration_end_utc" \in DOMAIN record

====
